---------------------------- MODULE Spec2Model ----------------------------
(* RingBuffer (TMaxElectronics/RingBuffer): a fixed-capacity ring buffer   *)
(* of fixed-size records, src/RingBuffer.c and src/include/RingBuffer.h.   *)
(* Under Spec every handler is one action; SpecCreate and SpecConc take    *)
(* create, write, read and readFromISR statement by statement. The storage *)
(* is modelled byte by byte, the cursors and counts keep their C widths    *)
(* (int32_t / uint32_t).                                                   *)
EXTENDS Integers, Sequences, FiniteSets, TLC

(***************************************************************************)
(* Bounds of the model                                                     *)
(***************************************************************************)
\* largest bufferSize (slot count) passed to RingBuffer_create
MaxCap == 3
\* largest dataSize (bytes per record) passed to RingBuffer_create
MaxDataSize == 2
\* largest length (record count) passed to write / read / readFromISR
MaxLen == 2
\* blocks the heap behind pvPortMalloc can hand out before it is exhausted
MaxBlocks == 4
\* the records a caller stores: record t has the bytes t, t+1, t+2, ... modulo 2,
\* so that the records differ from each other, the bytes of a record from
\* their neighbours and, from two bytes on, every record from zeroed storage
Tags == {0, 1}

(***************************************************************************)
(* C integer widths. TLC's integers are 32-bit two's complement,           *)
(* as int32_t is. A uint32_t is held as its 32 bits read as an int32_t     *)
(* (0xFFFFFFFF is -1, 0xFFFFFFFE is -2): sums, differences and products of *)
(* the model's small operands then have the bits C computes modulo 2^32,   *)
(* a conversion between int32_t and uint32_t keeps the bits, and the       *)
(* unsigned order is ULess.                                                *)
(***************************************************************************)
\* a < b for uint32_t a, b: bits with the top bit set are the larger values
ULess(a, b) ==
    \/ a >= 0 /\ b >= 0 /\ a < b
    \/ a >= 0 /\ b < 0
    \/ a < 0 /\ b < 0 /\ a < b

\* pointers: a null pointer, or a pointer to an object (its fields beside null)
NULL == [null |-> TRUE]

\* a non-null pointer to a caller's byte array
Ptr(bytes) == [null |-> FALSE, bytes |-> bytes]

VARIABLES
    buffer,   \* the RingBuffer_t descriptor with its storage, or NULL before create
    call,     \* the last call: operation, arguments, return value, caller's array
    fifo,     \* reference queue of at most dataCount-1 records, while it is followed
    trip,     \* a write made on an empty buffer, and whether a read has followed it
    maker,    \* RingBuffer_create run statement by statement, with the allocator
    writer,   \* the producer's RingBuffer_write run statement by statement
    reader,   \* the consumer's RingBuffer_read / readFromISR run statement by statement
    critical  \* who is inside a critical region: "free", "writer" or "reader"

\* the variables of the statement-by-statement specifications
stepVars == <<maker, writer, reader, critical>>

vars == <<buffer, call, fifo, trip, maker, writer, reader, critical>>

(***************************************************************************)
(* Helpers over byte arrays (0-indexed, as C arrays)                       *)
(***************************************************************************)
\* memset(p, 0, n): n zero bytes
Zeroed(n) == [k \in 0..(n - 1) |-> 0]

\* memcpy(dst + dstOff, src + srcOff, n)
memcpy(dst, dstOff, src, srcOff, n) ==
    [k \in DOMAIN dst |->
        IF k >= dstOff /\ k < dstOff + n THEN src[srcOff + (k - dstOff)] ELSE dst[k]]

\* the arrays of n records of dataSize bytes a caller can pass
ByteArrays(n, dataSize) ==
    {[k \in 0..(n * dataSize - 1) |-> (tags[k \div dataSize] + (k % dataSize)) % 2] :
        tags \in [0..(n - 1) -> Tags]}

(***************************************************************************)
(* RingBuffer_create                                                       *)
(***************************************************************************)
RingBuffer_create(bufferSize, dataSize) ==
    IF ULess(bufferSize, 2) \/ dataSize = 0
    THEN NULL
    ELSE [null       |-> FALSE,
          memSize    |-> bufferSize * dataSize,
          dataSize   |-> dataSize,
          dataCount  |-> bufferSize,
          mem        |-> Zeroed(bufferSize * dataSize),
          readIndex  |-> 0,
          writeIndex |-> 0]

(***************************************************************************)
(* Occupancy queries                                                       *)
(***************************************************************************)
\* uint32_t dataCount = writeIndex - readIndex; if(dataCount < 0) ...
RingBuffer_getDataCount(b) ==
    LET dataCount == b.writeIndex - b.readIndex
    IN  IF ULess(dataCount, 0) THEN dataCount + b.dataCount ELSE dataCount

\* uint32_t dataCount = readIndex - writeIndex - 1; if(dataCount < 0) ...
RingBuffer_getSpaceCount(b) ==
    LET dataCount == b.readIndex - b.writeIndex - 1
    IN  IF ULess(dataCount, 0) THEN dataCount + b.dataCount ELSE dataCount

RingBuffer_size(b) == b.dataCount

RingBuffer_sizeInBytes(b) == b.memSize

(***************************************************************************)
(* Cursor advance shared by the three copy loops:                          *)
(*   currIndex++; if(currIndex >= buffer->dataCount) currIndex = 0;        *)
(***************************************************************************)
\* NextIndex with the wrap test written > instead of >=
NextIndex_lateWrap(b, currIndex) ==
    LET n == currIndex + 1 IN IF ULess(b.dataCount, n) THEN 0 ELSE n

\* NextIndex that wraps one slot early
NextIndex_earlyWrap(b, currIndex) ==
    LET n == currIndex + 1 IN IF ~ULess(n + 1, b.dataCount) THEN 0 ELSE n

NextIndex(b, currIndex) ==
    LET n == currIndex + 1 IN IF ~ULess(n, b.dataCount) THEN 0 ELSE n

\* Offset without the stride: the index taken as a byte offset
Offset_noStride(b, index) == index

\* byte offset of a slot or of a caller's record: index * buffer->dataSize
Offset(b, index) == index * b.dataSize

(***************************************************************************)
(* RingBuffer_write                                                        *)
(***************************************************************************)
RECURSIVE WriteLoop(_, _, _, _, _)
\* while(currItem < length){ memcpy(dstPtr, srcPtr, dataSize); ... }
WriteLoop(b, src, length, currIndex, currItem) ==
    IF ULess(currItem, length)
    THEN WriteLoop([b EXCEPT !.mem = memcpy(b.mem, Offset(b, currIndex),
                                            src.bytes, Offset(b, currItem),
                                            b.dataSize)],
                   src, length, NextIndex(b, currIndex), currItem + 1)
    ELSE [b EXCEPT !.writeIndex = currIndex]

\* RingBuffer_write that stores the first record before it reports no space
RingBuffer_write_partial(b, src, length) ==
    IF b.null \/ src.null
    THEN [buffer |-> b, ret |-> -1]
    ELSE IF ULess(RingBuffer_getSpaceCount(b), length)
    THEN [buffer |-> WriteLoop(b, src, 1, b.writeIndex, 0), ret |-> -1]
    ELSE [buffer |-> WriteLoop(b, src, length, b.writeIndex, 0), ret |-> length]

\* the buffer after the call and the value returned
RingBuffer_write(b, src, length) ==
    IF b.null \/ src.null
    THEN [buffer |-> b, ret |-> -1]
    ELSE IF ULess(RingBuffer_getSpaceCount(b), length)
    THEN [buffer |-> b, ret |-> -1]
    ELSE [buffer |-> WriteLoop(b, src, length, b.writeIndex, 0),
          ret    |-> length]

(***************************************************************************)
(* RingBuffer_read                                                         *)
(***************************************************************************)
RECURSIVE ReadLoop_clearing(_, _, _, _, _)
\* ReadLoop that zeroes each slot once it has copied it out
ReadLoop_clearing(b, dst, length, currIndex, currItem) ==
    IF ULess(currItem, length)
    THEN ReadLoop_clearing(
             [b EXCEPT !.mem = memcpy(b.mem, Offset(b, currIndex),
                                      Zeroed(b.dataSize), 0, b.dataSize)],
             Ptr(memcpy(dst.bytes, Offset(b, currItem),
                        b.mem, Offset(b, currIndex), b.dataSize)),
             length, NextIndex(b, currIndex), currItem + 1)
    ELSE [buffer |-> [b EXCEPT !.readIndex = currIndex], dst |-> dst]

RECURSIVE ReadLoop(_, _, _, _, _)
\* while(currItem < length){ memcpy(dstPtr, srcPtr, dataSize); ... }
ReadLoop(b, dst, length, currIndex, currItem) ==
    IF ULess(currItem, length)
    THEN ReadLoop(b, Ptr(memcpy(dst.bytes, Offset(b, currItem),
                                b.mem, Offset(b, currIndex), b.dataSize)),
                  length, NextIndex(b, currIndex), currItem + 1)
    ELSE [buffer |-> [b EXCEPT !.readIndex = currIndex], dst |-> dst]

\* the buffer and the destination array after the call, and the value returned
RingBuffer_read(b, dst, length) ==
    IF b.null \/ dst.null
    THEN [buffer |-> b, dst |-> dst, ret |-> -1]
    ELSE IF ULess(RingBuffer_getDataCount(b), length)
    THEN [buffer |-> b, dst |-> dst, ret |-> -1]
    ELSE LET done == ReadLoop(b, dst, length, b.readIndex, 0)
         IN  [buffer |-> done.buffer, dst |-> done.dst, ret |-> length]

(***************************************************************************)
(* RingBuffer_readFromISR                                                  *)
(***************************************************************************)
RECURSIVE ReadFromISRLoop(_, _, _, _, _)
ReadFromISRLoop(b, dst, length, currIndex, currItem) ==
    IF ULess(currItem, length)
    THEN ReadFromISRLoop(b, Ptr(memcpy(dst.bytes, Offset(b, currItem),
                                       b.mem, Offset(b, currIndex), b.dataSize)),
                         length, NextIndex(b, currIndex), currItem + 1)
    ELSE [buffer |-> [b EXCEPT !.readIndex = currIndex], dst |-> dst]

\* RingBuffer_readFromISR with length taken as int32_t, as the header declares it
RingBuffer_readFromISR_signed(b, dst, length) ==
    IF b.null \/ dst.null
    THEN [buffer |-> b, dst |-> dst, ret |-> -1]
    ELSE IF RingBuffer_getDataCount(b) < length
    THEN [buffer |-> b, dst |-> dst, ret |-> -1]
    ELSE LET done == ReadFromISRLoop(b, dst, length, b.readIndex, 0)
         IN  [buffer |-> done.buffer, dst |-> done.dst, ret |-> length]

RingBuffer_readFromISR(b, dst, length) ==
    IF b.null \/ dst.null
    THEN [buffer |-> b, dst |-> dst, ret |-> -1]
    ELSE IF ULess(RingBuffer_getDataCount(b), length)
    THEN [buffer |-> b, dst |-> dst, ret |-> -1]
    ELSE LET done == ReadFromISRLoop(b, dst, length, b.readIndex, 0)
         IN  [buffer |-> done.buffer, dst |-> done.dst, ret |-> length]

(***************************************************************************)
(* RingBuffer_flush                                                        *)
(***************************************************************************)
\* RingBuffer_flush that empties the buffer by resetting both cursors
RingBuffer_flush_reset(b) == [b EXCEPT !.readIndex = 0, !.writeIndex = 0]

RingBuffer_flush(b) == [b EXCEPT !.readIndex = b.writeIndex]

(***************************************************************************)
(* Reference queue: the FIFO of at most dataCount-1 records the buffer is  *)
(* compared with. fifo.q holds the records it has accepted and not yet     *)
(* delivered; fifo.ok says that every answer of the buffer so far was the  *)
(* answer of the queue. Once an answer differs the comparison has ended    *)
(* and the queue is no longer followed (q stays empty, ok stays FALSE).    *)
(***************************************************************************)
\* record i of a caller's array, as its dataSize bytes
RecordAt(bytes, i, dataSize) == [k \in 0..(dataSize - 1) |-> bytes[i * dataSize + k]]

\* the n records of a caller's array, in order
Records(bytes, n, dataSize) == [i \in 1..n |-> RecordAt(bytes, i - 1, dataSize)]

\* the queue's answer to write(b, src, length): its return value and new content
FifoWrite(q, b, src, length) ==
    IF b.null \/ src.null \/ length > (b.dataCount - 1) - Len(q)
    THEN [q |-> q, ret |-> -1]
    ELSE [q |-> q \o Records(src.bytes, length, b.dataSize), ret |-> length]

\* the queue's answer to read(b, dst, length): return value, records, new content
FifoRead(q, b, dst, length) ==
    IF b.null \/ dst.null \/ length > Len(q)
    THEN [q |-> q, ret |-> -1, out |-> <<>>]
    ELSE [q |-> SubSeq(q, length + 1, Len(q)), ret |-> length,
          out |-> SubSeq(q, 1, length)]

\* the buffer's write returned what the queue's write returns
WriteAgrees(q, b, src, length, res) == res.ret = FifoWrite(q, b, src, length).ret

\* the buffer's read returned and delivered what the queue's read does
ReadAgrees(q, b, dst, length, res) ==
    LET ref == FifoRead(q, b, dst, length)
    IN  /\ res.ret = ref.ret
        /\ ref.ret >= 0 => Records(res.dst.bytes, length, b.dataSize) = ref.out

\* the queue after a call: followed while the answers agree
Follow(ok, q) == IF ok THEN [q |-> q, ok |-> TRUE] ELSE [q |-> <<>>, ok |-> FALSE]

(***************************************************************************)
(* The caller: one action per function of the interface                    *)
(***************************************************************************)
\* the arrays a caller passes for length records: any bytes, or a null pointer
SrcPtrs(b, length) ==
    {NULL} \cup {Ptr(a) : a \in ByteArrays(length, IF b.null THEN 1 ELSE b.dataSize)}

\* the destination a caller passes for length records: zeroed, or a null pointer
DstPtrs(b, length) ==
    {NULL, Ptr(Zeroed(length * (IF b.null THEN 1 ELSE b.dataSize)))}

\* readIndex == writeIndex on an existing buffer
IsEmpty(b) == ~b.null /\ b.readIndex = b.writeIndex

\* no round trip in progress
NoTrip == [stage |-> "none", src |-> Zeroed(0), length |-> 0, ret |-> 0]

\* no call has been made
NoCall == [op |-> "none", length |-> 0, ret |-> 0, data |-> NULL]

\* the statement-by-statement contexts at rest
MakerIdle == [pc |-> "idle"]
WriterIdle ==
    [pc |-> "idle", ret |-> 0, src |-> NULL, length |-> 0,
     currIndex |-> 0, currItem |-> 0, seen |-> 0]
ReaderIdle ==
    [pc |-> "idle", kind |-> "read", ret |-> 0, dst |-> NULL, length |-> 0,
     currIndex |-> 0, currItem |-> 0, seen |-> 0]

Init ==
    /\ buffer = NULL
    /\ call = NoCall
    /\ fifo = Follow(TRUE, <<>>)
    /\ trip = NoTrip
    /\ maker = MakerIdle
    /\ writer = WriterIdle
    /\ reader = ReaderIdle
    /\ critical = "free"

Create ==
    /\ buffer.null
    /\ \E bufferSize \in 0..MaxCap, dataSize \in 0..MaxDataSize :
          /\ buffer' = RingBuffer_create(bufferSize, dataSize)
          /\ call' = [op |-> "create", length |-> bufferSize, ret |-> 0,
                      data |-> NULL]
    /\ fifo' = Follow(fifo.ok, <<>>)
    /\ trip' = NoTrip
    /\ UNCHANGED stepVars

Write ==
    \E length \in 0..MaxLen :
      \E src \in SrcPtrs(buffer, length) :
        LET res == RingBuffer_write(buffer, src, length)
        IN  /\ buffer' = res.buffer
            /\ call' = [op |-> "write", length |-> length, ret |-> res.ret,
                        data |-> src]
            /\ fifo' = Follow(fifo.ok /\ WriteAgrees(fifo.q, buffer, src, length, res),
                               FifoWrite(fifo.q, buffer, src, length).q)
            /\ trip' = IF IsEmpty(buffer) /\ ~src.null /\ length <= buffer.dataCount - 1
                       THEN [stage |-> "written", src |-> src.bytes,
                             length |-> length, ret |-> res.ret]
                       ELSE NoTrip
            /\ UNCHANGED stepVars

Read ==
    \E length \in 0..MaxLen :
      \E dst \in DstPtrs(buffer, length) :
        LET res == RingBuffer_read(buffer, dst, length)
        IN  /\ buffer' = res.buffer
            /\ call' = [op |-> "read", length |-> length, ret |-> res.ret,
                        data |-> res.dst]
            /\ fifo' = Follow(fifo.ok /\ ReadAgrees(fifo.q, buffer, dst, length, res),
                               FifoRead(fifo.q, buffer, dst, length).q)
            /\ trip' = IF trip.stage = "written" /\ ~dst.null /\ length = trip.length
                       THEN [trip EXCEPT !.stage = "read"]
                       ELSE NoTrip
            /\ UNCHANGED stepVars

ReadFromISR ==
    \E length \in 0..MaxLen :
      \E dst \in DstPtrs(buffer, length) :
        LET res == RingBuffer_readFromISR(buffer, dst, length)
        IN  /\ buffer' = res.buffer
            /\ call' = [op |-> "readFromISR", length |-> length, ret |-> res.ret,
                        data |-> res.dst]
            /\ fifo' = Follow(fifo.ok /\ ReadAgrees(fifo.q, buffer, dst, length, res),
                               FifoRead(fifo.q, buffer, dst, length).q)
            /\ trip' = NoTrip
            /\ UNCHANGED stepVars

\* flush dereferences buffer without a test: callers pass an existing buffer
Flush ==
    /\ ~buffer.null
    /\ buffer' = RingBuffer_flush(buffer)
    /\ call' = [op |-> "flush", length |-> 0, ret |-> 0, data |-> NULL]
    /\ fifo' = Follow(fifo.ok, <<>>)
    /\ trip' = NoTrip
    /\ UNCHANGED stepVars

\* the four queries dereference buffer without a test and return a value only
Size ==
    /\ ~buffer.null
    /\ call' = [op |-> "size", length |-> 0, ret |-> RingBuffer_size(buffer),
                data |-> NULL]
    /\ trip' = NoTrip
    /\ UNCHANGED <<buffer, fifo>>
    /\ UNCHANGED stepVars

SizeInBytes ==
    /\ ~buffer.null
    /\ call' = [op |-> "sizeInBytes", length |-> 0,
                ret |-> RingBuffer_sizeInBytes(buffer), data |-> NULL]
    /\ trip' = NoTrip
    /\ UNCHANGED <<buffer, fifo>>
    /\ UNCHANGED stepVars

GetDataCount ==
    /\ ~buffer.null
    /\ call' = [op |-> "getDataCount", length |-> 0,
                ret |-> RingBuffer_getDataCount(buffer), data |-> NULL]
    /\ trip' = NoTrip
    /\ UNCHANGED <<buffer, fifo>>
    /\ UNCHANGED stepVars

GetSpaceCount ==
    /\ ~buffer.null
    /\ call' = [op |-> "getSpaceCount", length |-> 0,
                ret |-> RingBuffer_getSpaceCount(buffer), data |-> NULL]
    /\ trip' = NoTrip
    /\ UNCHANGED <<buffer, fifo>>
    /\ UNCHANGED stepVars

Next ==
    \/ Create \/ Write \/ Read \/ ReadFromISR \/ Flush
    \/ Size \/ SizeInBytes \/ GetDataCount \/ GetSpaceCount

Spec == Init /\ [][Next]_vars

(***************************************************************************)
(* RingBuffer_create, statement by statement, with an allocator that can   *)
(* fail. pvPortMalloc returns a block, or NULL (always when the heap is    *)
(* exhausted; nothing in the source releases a block). A store through a   *)
(* null pointer is undefined: the build either traps there or lets the     *)
(* store go to address 0 and carries on; both outcomes are modelled.       *)
(*   maker.ret, maker.mem : "block", "null" (and "unset" for mem)          *)
(*   maker.live           : blocks handed out so far                       *)
(*   maker.nullDeref      : a null pointer has been dereferenced           *)
(***************************************************************************)
\* if(bufferSize < 2 || dataSize == 0) with only the first test
InvalidArgs_sizeOnly(bufferSize, dataSize) == ULess(bufferSize, 2)

\* if(bufferSize < 2 || dataSize == 0) return NULL;
InvalidArgs(bufferSize, dataSize) == ULess(bufferSize, 2) \/ dataSize = 0

\* what pvPortMalloc can return when live blocks are handed out
pvPortMalloc(live) == IF live < MaxBlocks THEN {"block", "null"} ELSE {"null"}

\* the call begins; the heap keeps the blocks of earlier calls
MakerCall ==
    /\ maker.pc \in {"idle", "returned"}
    /\ \E bufferSize \in 0..MaxCap, dataSize \in 0..MaxDataSize :
          maker' = [pc |-> "check", bufferSize |-> bufferSize, dataSize |-> dataSize,
                    ret |-> "null", mem |-> "unset",
                    live |-> IF maker.pc = "idle" THEN 0 ELSE maker.live,
                    live0 |-> IF maker.pc = "idle" THEN 0 ELSE maker.live,
                    failed |-> FALSE, nullDeref |-> FALSE, result |-> "none"]
    /\ UNCHANGED <<buffer, call, fifo, trip, writer, reader, critical>>

\* line 8
MakerCheck ==
    /\ maker.pc = "check"
    /\ maker' = IF InvalidArgs(maker.bufferSize, maker.dataSize)
                THEN [maker EXCEPT !.pc = "returned", !.result = "null"]
                ELSE [maker EXCEPT !.pc = "allocDesc"]
    /\ UNCHANGED <<buffer, call, fifo, trip, writer, reader, critical>>

\* line 11: RingBuffer_t * ret = pvPortMalloc(sizeof(RingBuffer_t));
MakerAllocDesc ==
    /\ maker.pc = "allocDesc"
    /\ \E p \in pvPortMalloc(maker.live) :
          maker' = [maker EXCEPT !.pc = "clearDesc", !.ret = p,
                                 !.live = IF p = "block" THEN @ + 1 ELSE @,
                                 !.failed = (p = "null")]
    /\ UNCHANGED <<buffer, call, fifo, trip, writer, reader, critical>>

\* line 12: memset(ret, 0, sizeof(RingBuffer_t)); no test of ret before it
MakerClearDesc ==
    /\ maker.pc = "clearDesc"
    /\ \/ maker' = [maker EXCEPT !.pc = "allocMem", !.nullDeref = @ \/ maker.ret = "null"]
       \/ maker.ret = "null" /\ maker' = [maker EXCEPT !.pc = "trapped", !.nullDeref = TRUE]
    /\ UNCHANGED <<buffer, call, fifo, trip, writer, reader, critical>>

\* line 15: ret->mem = pvPortMalloc(bufferSize * dataSize);
MakerAllocMem ==
    /\ maker.pc = "allocMem"
    /\ \E p \in pvPortMalloc(maker.live) :
         LET got == [maker EXCEPT !.mem = p,
                                  !.live = IF p = "block" THEN @ + 1 ELSE @,
                                  !.failed = @ \/ p = "null",
                                  !.nullDeref = @ \/ maker.ret = "null"]
         IN  \/ maker' = [got EXCEPT !.pc = "clearMem"]
             \/ maker.ret = "null" /\ maker' = [got EXCEPT !.pc = "trapped"]
    /\ UNCHANGED <<buffer, call, fifo, trip, writer, reader, critical>>

\* line 16: memset(ret->mem, 0, bufferSize * dataSize); no test of ret->mem
MakerClearMem ==
    /\ maker.pc = "clearMem"
    /\ LET bad == maker.ret = "null" \/ maker.mem = "null"
       IN  \/ maker' = [maker EXCEPT !.pc = "fill", !.nullDeref = @ \/ bad]
           \/ bad /\ maker' = [maker EXCEPT !.pc = "trapped", !.nullDeref = TRUE]
    /\ UNCHANGED <<buffer, call, fifo, trip, writer, reader, critical>>

\* lines 19-21: ret->memSize = ...; ret->dataCount = ...; ret->dataSize = ...;
MakerFill ==
    /\ maker.pc = "fill"
    /\ \/ maker' = [maker EXCEPT !.pc = "return", !.nullDeref = @ \/ maker.ret = "null"]
       \/ maker.ret = "null" /\ maker' = [maker EXCEPT !.pc = "trapped", !.nullDeref = TRUE]
    /\ UNCHANGED <<buffer, call, fifo, trip, writer, reader, critical>>

\* line 25: return ret; the caller keeps a descriptor whose storage exists
MakerReturn ==
    /\ maker.pc = "return"
    /\ maker' = [maker EXCEPT !.pc = "returned", !.result = maker.ret]
    /\ buffer' = IF maker.ret = "block" /\ maker.mem = "block"
                 THEN RingBuffer_create(maker.bufferSize, maker.dataSize)
                 ELSE buffer
    /\ UNCHANGED <<call, fifo, trip, writer, reader, critical>>

NextCreate ==
    \/ MakerCall \/ MakerCheck \/ MakerAllocDesc \/ MakerClearDesc
    \/ MakerAllocMem \/ MakerClearMem \/ MakerFill \/ MakerReturn

SpecCreate == Init /\ [][NextCreate]_vars

(***************************************************************************)
(* One producer and one consumer, statement by statement. The producer is  *)
(* a task calling RingBuffer_write; the consumer calls RingBuffer_read     *)
(* from a task or RingBuffer_readFromISR from an interrupt handler, on a   *)
(* single core:                                                            *)
(*  - vTaskEnterCritical / taskENTER_CRITICAL_FROM_ISR mask interrupts, so *)
(*    nothing else runs until the matching exit (critical names the        *)
(*    context inside a region);                                            *)
(*  - a task can be preempted between any two statements outside a region; *)
(*  - an interrupt handler starts only while interrupts are enabled and    *)
(*    runs to its return before the interrupted task continues.            *)
(* pc: "idle" (not in a call), "enter" (test passed, before the region),   *)
(* "loop" (inside the region, at the while test), "exit" (cursor assigned, *)
(* before the region is left). seen is the occupancy the test has read.    *)
(***************************************************************************)
\* the consumer is inside a call of the interrupt handler
InISR == reader.pc # "idle" /\ reader.kind = "readFromISR"

\* the producer task executes: no other context is in a region or in a handler
WriterRuns == critical \in {"free", "writer"} /\ ~InISR

\* the consumer executes: the producer is in no region
ReaderRuns == critical \in {"free", "reader"}

\* lines 36-44: the null test and the space test, or the error return
WriterCall ==
    /\ WriterRuns /\ writer.pc = "idle"
    /\ \E length \in 0..MaxLen :
         \E src \in SrcPtrs(buffer, length) :
            writer' = IF buffer.null \/ src.null
                         \/ ULess(RingBuffer_getSpaceCount(buffer), length)
                      THEN [WriterIdle EXCEPT !.ret = -1]
                      ELSE [WriterIdle EXCEPT !.pc = "enter", !.src = src,
                                              !.length = length,
                                              !.seen = RingBuffer_getSpaceCount(buffer)]
    /\ UNCHANGED <<buffer, call, fifo, trip, maker, reader, critical>>

\* lines 47-50: vTaskEnterCritical(); currIndex = buffer->writeIndex; currItem = 0;
WriterEnter ==
    /\ WriterRuns /\ writer.pc = "enter"
    /\ critical' = "writer"
    /\ writer' = [writer EXCEPT !.pc = "loop", !.currIndex = buffer.writeIndex,
                                !.currItem = 0]
    /\ UNCHANGED <<buffer, call, fifo, trip, maker, reader>>

\* WriterCopy that moves writeIndex along with every record it stores
WriterCopy_publishing ==
    /\ WriterRuns /\ writer.pc = "loop" /\ ULess(writer.currItem, writer.length)
    /\ buffer' = [buffer EXCEPT
                    !.mem = memcpy(buffer.mem, Offset(buffer, writer.currIndex),
                                   writer.src.bytes, Offset(buffer, writer.currItem),
                                   buffer.dataSize),
                    !.writeIndex = NextIndex(buffer, writer.currIndex)]
    /\ writer' = [writer EXCEPT !.currItem = @ + 1,
                                !.currIndex = NextIndex(buffer, @)]
    /\ UNCHANGED <<call, fifo, trip, maker, reader, critical>>

\* lines 52-64: one pass of the loop body
WriterCopy ==
    /\ WriterRuns /\ writer.pc = "loop" /\ ULess(writer.currItem, writer.length)
    /\ buffer' = [buffer EXCEPT
                    !.mem = memcpy(buffer.mem, Offset(buffer, writer.currIndex),
                                   writer.src.bytes, Offset(buffer, writer.currItem),
                                   buffer.dataSize)]
    /\ writer' = [writer EXCEPT !.currItem = @ + 1,
                                !.currIndex = NextIndex(buffer, @)]
    /\ UNCHANGED <<call, fifo, trip, maker, reader, critical>>

\* lines 52, 67: the loop ends; buffer->writeIndex = currIndex;
WriterCommit ==
    /\ WriterRuns /\ writer.pc = "loop" /\ ~ULess(writer.currItem, writer.length)
    /\ buffer' = [buffer EXCEPT !.writeIndex = writer.currIndex]
    /\ writer' = [writer EXCEPT !.pc = "exit"]
    /\ UNCHANGED <<call, fifo, trip, maker, reader, critical>>

\* WriterExit that returns without vTaskExitCritical
WriterExit_holding ==
    /\ WriterRuns /\ writer.pc = "exit"
    /\ writer' = [WriterIdle EXCEPT !.ret = writer.length]
    /\ UNCHANGED <<buffer, call, fifo, trip, maker, reader, critical>>

\* lines 70-72: vTaskExitCritical(); return length;
WriterExit ==
    /\ WriterRuns /\ writer.pc = "exit"
    /\ critical' = "free"
    /\ writer' = [WriterIdle EXCEPT !.ret = writer.length]
    /\ UNCHANGED <<buffer, call, fifo, trip, maker, reader>>

\* lines 75-83: the null test and the data test, or the error return
ReaderCall ==
    /\ ReaderRuns /\ reader.pc = "idle"
    /\ \E length \in 0..MaxLen :
         \E dst \in DstPtrs(buffer, length) :
            reader' = IF buffer.null \/ dst.null
                         \/ ULess(RingBuffer_getDataCount(buffer), length)
                      THEN [ReaderIdle EXCEPT !.ret = -1]
                      ELSE [ReaderIdle EXCEPT !.pc = "enter", !.dst = dst,
                                              !.length = length,
                                              !.seen = RingBuffer_getDataCount(buffer)]
    /\ UNCHANGED <<buffer, call, fifo, trip, maker, writer, critical>>

\* lines 86-89: vTaskEnterCritical(); currIndex = buffer->readIndex; currItem = 0;
ReaderEnter ==
    /\ ReaderRuns /\ reader.pc = "enter" /\ reader.kind = "read"
    /\ critical' = "reader"
    /\ reader' = [reader EXCEPT !.pc = "loop", !.currIndex = buffer.readIndex,
                                !.currItem = 0]
    /\ UNCHANGED <<buffer, call, fifo, trip, maker, writer>>

\* ReaderCopy that moves readIndex along with every record it copies out
ReaderCopy_releasing ==
    /\ ReaderRuns /\ reader.pc = "loop" /\ reader.kind = "read"
    /\ ULess(reader.currItem, reader.length)
    /\ buffer' = [buffer EXCEPT !.readIndex = NextIndex(buffer, reader.currIndex)]
    /\ reader' = [reader EXCEPT
                    !.dst = Ptr(memcpy(reader.dst.bytes, Offset(buffer, reader.currItem),
                                       buffer.mem, Offset(buffer, reader.currIndex),
                                       buffer.dataSize)),
                    !.currItem = @ + 1,
                    !.currIndex = NextIndex(buffer, @)]
    /\ UNCHANGED <<call, fifo, trip, maker, writer, critical>>

\* lines 91-103: one pass of the loop body
ReaderCopy ==
    /\ ReaderRuns /\ reader.pc = "loop" /\ reader.kind = "read"
    /\ ULess(reader.currItem, reader.length)
    /\ reader' = [reader EXCEPT
                    !.dst = Ptr(memcpy(reader.dst.bytes, Offset(buffer, reader.currItem),
                                       buffer.mem, Offset(buffer, reader.currIndex),
                                       buffer.dataSize)),
                    !.currItem = @ + 1,
                    !.currIndex = NextIndex(buffer, @)]
    /\ UNCHANGED <<buffer, call, fifo, trip, maker, writer, critical>>

\* lines 91, 106: the loop ends; buffer->readIndex = currIndex;
ReaderCommit ==
    /\ ReaderRuns /\ reader.pc = "loop" /\ reader.kind = "read"
    /\ ~ULess(reader.currItem, reader.length)
    /\ buffer' = [buffer EXCEPT !.readIndex = reader.currIndex]
    /\ reader' = [reader EXCEPT !.pc = "exit"]
    /\ UNCHANGED <<call, fifo, trip, maker, writer, critical>>

\* lines 109-111: vTaskExitCritical(); return length;
ReaderExit ==
    /\ ReaderRuns /\ reader.pc = "exit" /\ reader.kind = "read"
    /\ critical' = "free"
    /\ reader' = [ReaderIdle EXCEPT !.ret = reader.length]
    /\ UNCHANGED <<buffer, call, fifo, trip, maker, writer>>

\* lines 114-122: the interrupt handler calls readFromISR; interrupts are enabled
IsrCall ==
    /\ critical = "free" /\ reader.pc = "idle"
    /\ \E length \in 0..MaxLen :
         \E dst \in DstPtrs(buffer, length) :
            reader' = IF buffer.null \/ dst.null
                         \/ ULess(RingBuffer_getDataCount(buffer), length)
                      THEN [ReaderIdle EXCEPT !.ret = -1, !.kind = "readFromISR"]
                      ELSE [ReaderIdle EXCEPT !.pc = "enter", !.kind = "readFromISR",
                                              !.dst = dst, !.length = length,
                                              !.seen = RingBuffer_getDataCount(buffer)]
    /\ UNCHANGED <<buffer, call, fifo, trip, maker, writer, critical>>

\* lines 124-127: taskENTER_CRITICAL_FROM_ISR(); currIndex = ...; currItem = 0;
IsrEnter ==
    /\ ReaderRuns /\ reader.pc = "enter" /\ reader.kind = "readFromISR"
    /\ critical' = "reader"
    /\ reader' = [reader EXCEPT !.pc = "loop", !.currIndex = buffer.readIndex,
                                !.currItem = 0]
    /\ UNCHANGED <<buffer, call, fifo, trip, maker, writer>>

\* lines 129-141: one pass of the loop body
IsrCopy ==
    /\ ReaderRuns /\ reader.pc = "loop" /\ reader.kind = "readFromISR"
    /\ ULess(reader.currItem, reader.length)
    /\ reader' = [reader EXCEPT
                    !.dst = Ptr(memcpy(reader.dst.bytes, Offset(buffer, reader.currItem),
                                       buffer.mem, Offset(buffer, reader.currIndex),
                                       buffer.dataSize)),
                    !.currItem = @ + 1,
                    !.currIndex = NextIndex(buffer, @)]
    /\ UNCHANGED <<buffer, call, fifo, trip, maker, writer, critical>>

\* lines 129, 144: the loop ends; buffer->readIndex = currIndex;
IsrCommit ==
    /\ ReaderRuns /\ reader.pc = "loop" /\ reader.kind = "readFromISR"
    /\ ~ULess(reader.currItem, reader.length)
    /\ buffer' = [buffer EXCEPT !.readIndex = reader.currIndex]
    /\ reader' = [reader EXCEPT !.pc = "exit"]
    /\ UNCHANGED <<call, fifo, trip, maker, writer, critical>>

\* lines 147-149: taskEXIT_CRITICAL_FROM_ISR(uxSavedInterruptStatus); return length;
IsrExit ==
    /\ ReaderRuns /\ reader.pc = "exit" /\ reader.kind = "readFromISR"
    /\ critical' = "free"
    /\ reader' = [ReaderIdle EXCEPT !.ret = reader.length, !.kind = "readFromISR"]
    /\ UNCHANGED <<buffer, call, fifo, trip, maker, writer>>

\* the buffer exists before the producer and the consumer start
InitConc ==
    /\ buffer \in {RingBuffer_create(bufferSize, dataSize) :
                     bufferSize \in 2..MaxCap, dataSize \in 1..MaxDataSize}
    /\ call = NoCall
    /\ fifo = Follow(TRUE, <<>>)
    /\ trip = NoTrip
    /\ maker = MakerIdle
    /\ writer = WriterIdle
    /\ reader = ReaderIdle
    /\ critical = "free"

NextConc ==
    \/ WriterCall \/ WriterEnter \/ WriterCopy \/ WriterCommit \/ WriterExit
    \/ ReaderCall \/ ReaderEnter \/ ReaderCopy \/ ReaderCommit \/ ReaderExit
    \/ IsrCall \/ IsrEnter \/ IsrCopy \/ IsrCommit \/ IsrExit

SpecConc == InitConc /\ [][NextConc]_vars

(***************************************************************************)
(* Properties                                                              *)
(***************************************************************************)
ReadOps == {"read", "readFromISR"}

\* the value of a uint32_t equals the natural number n (n < 2^31)
UEquals(bits, n) == bits >= 0 /\ bits = n

\* C1: the buffer behaves like a FIFO queue of at most capacity-1 records:
\* as long as every earlier answer was the queue's, each write returns what
\* the queue's write returns and each read returns and delivers what the
\* queue's read does (nothing lost, duplicated, reordered or replaced).
C1_FifoRefinement ==
    [][fifo.ok =>
         /\ call'.op = "write" =>
              WriteAgrees(fifo.q, buffer, call'.data, call'.length, [ret |-> call'.ret])
         /\ call'.op \in ReadOps =>
              ReadAgrees(fifo.q, buffer, call'.data, call'.length,
                         [ret |-> call'.ret, dst |-> call'.data])]_vars

\* C2: round trip: a write of n <= capacity-1 records on an empty buffer
\* returns n, and a read of n records right after it returns n, delivers the
\* same bytes in the same order and leaves the buffer empty.
C2_RoundTrip ==
    /\ trip.stage = "written" => trip.ret = trip.length
    /\ trip.stage = "read" =>
         /\ trip.ret = trip.length
         /\ call.ret = trip.length
         /\ call.data.bytes = trip.src
         /\ IsEmpty(buffer)

\* a round trip of two different records that started at the last slot of a
\* three-slot buffer, so that both copies crossed the end of the storage
C2_Witness ==
    /\ trip.stage = "read" /\ trip.length = 2
    /\ buffer.dataCount = 3 /\ buffer.dataSize = 2 /\ buffer.readIndex = 1
    /\ call.data.bytes[0] = 1 /\ call.data.bytes[2] = 0

\* C3: a write of more records than the free slots (capacity - 1 - unread
\* records) fails; the unread records are those of the reference queue.
C3_WriteBeyondSpaceFails ==
    [][(/\ fifo.ok /\ call'.op = "write" /\ ~buffer.null /\ ~call'.data.null
        /\ call'.length > (buffer.dataCount - 1) - Len(fifo.q))
       => call'.ret = -1]_vars

\* C4: a read or readFromISR of more records than are unread fails.
C4_ReadBeyondDataFails ==
    [][(/\ fifo.ok /\ call'.op \in ReadOps /\ ~buffer.null /\ ~call'.data.null
        /\ call'.length > Len(fifo.q))
       => call'.ret = -1]_vars

\* C5: all or nothing: write, read and readFromISR return either the whole
\* count or an error; a request beyond what the occupancy query reports is an
\* error; and after an error the descriptor, both cursors, every storage
\* byte and the destination array are as they were before the call.
C5_AllOrNothing ==
    [][call'.op \in ReadOps \cup {"write"} =>
         /\ call'.ret \in {-1, call'.length}
         /\ (/\ call'.op = "write" /\ ~buffer.null
             /\ ULess(RingBuffer_getSpaceCount(buffer), call'.length)) => call'.ret = -1
         /\ (/\ call'.op \in ReadOps /\ ~buffer.null
             /\ ULess(RingBuffer_getDataCount(buffer), call'.length)) => call'.ret = -1
         /\ call'.ret = -1 =>
              /\ buffer' = buffer
              /\ (call'.op \in ReadOps /\ ~call'.data.null) =>
                    \A k \in DOMAIN call'.data.bytes : call'.data.bytes[k] = 0]_vars

\* a write with a valid source was refused on a buffer that holds records
C5_Witness ==
    /\ call.op = "write" /\ call.ret = -1 /\ ~call.data.null /\ call.length = 2
    /\ ~buffer.null /\ buffer.readIndex # buffer.writeIndex
    /\ \E k \in DOMAIN buffer.mem : buffer.mem[k] = 1

\* C6: getDataCount + getSpaceCount = capacity - 1 after every operation.
C6_CountsAddUp ==
    ~buffer.null =>
        /\ RingBuffer_getDataCount(buffer) >= 0
        /\ RingBuffer_getSpaceCount(buffer) >= 0
        /\ RingBuffer_getDataCount(buffer) + RingBuffer_getSpaceCount(buffer)
             = buffer.dataCount - 1

\* C7: right after a successful create both cursors are 0, getDataCount
\* returns 0 and getSpaceCount returns capacity - 1.
C7_AfterCreate ==
    (call.op = "create" /\ ~buffer.null) =>
        /\ buffer.readIndex = 0 /\ buffer.writeIndex = 0
        /\ UEquals(RingBuffer_getDataCount(buffer), 0)
        /\ UEquals(RingBuffer_getSpaceCount(buffer), buffer.dataCount - 1)

\* C8: getDataCount returns (writeIndex - readIndex) mod capacity.
C8_DataCountIsModular ==
    ~buffer.null =>
        UEquals(RingBuffer_getDataCount(buffer),
                (buffer.writeIndex - buffer.readIndex) % buffer.dataCount)

\* C9: getSpaceCount returns (readIndex - writeIndex - 1) mod capacity.
C9_SpaceCountIsModular ==
    ~buffer.null =>
        UEquals(RingBuffer_getSpaceCount(buffer),
                (buffer.readIndex - buffer.writeIndex - 1) % buffer.dataCount)

\* C10: both cursors stay inside [0, capacity) whatever is called with
\* whatever count.
C10_CursorsInRange ==
    ~buffer.null =>
        /\ 0 <= buffer.readIndex /\ buffer.readIndex < buffer.dataCount
        /\ 0 <= buffer.writeIndex /\ buffer.writeIndex < buffer.dataCount

\* a write of two records has crossed the end of the storage: it began at the
\* last slot and left writeIndex below readIndex
C10_Witness ==
    /\ call.op = "write" /\ call.ret = 2
    /\ ~buffer.null /\ buffer.dataCount = 3
    /\ buffer.writeIndex = 1 /\ buffer.readIndex = 2

\* C13: flush sets readIndex to writeIndex and changes nothing else, so that
\* getDataCount returns 0 right after it, and a second flush leaves the
\* buffer exactly as the first one left it.
C13_Flush ==
    [][call'.op = "flush" =>
         /\ buffer'.readIndex = buffer.writeIndex
         /\ \A f \in DOMAIN buffer \ {"readIndex"} : buffer'[f] = buffer[f]
         /\ DOMAIN buffer' = DOMAIN buffer
         /\ UEquals(RingBuffer_getDataCount(buffer'), 0)
         /\ RingBuffer_flush(buffer') = buffer']_vars

\* a flush has discarded the records of a buffer whose cursors differed: the
\* cursors meet away from slot 0 and the storage still holds a stored record
C13_Witness ==
    /\ call.op = "flush" /\ ~buffer.null
    /\ buffer.readIndex = 2 /\ buffer.writeIndex = 2
    /\ \E k \in DOMAIN buffer.mem : buffer.mem[k] = 1

QueryOps == {"size", "sizeInBytes", "getDataCount", "getSpaceCount"}

\* C16: write never changes readIndex; read, readFromISR and flush never
\* change writeIndex or a storage byte; the four queries change nothing; the
\* descriptor's memSize, dataSize and dataCount never change after creation.
C16_CursorOwnership ==
    [][~buffer.null =>
         /\ ~buffer'.null
         /\ buffer'.memSize = buffer.memSize
         /\ buffer'.dataSize = buffer.dataSize
         /\ buffer'.dataCount = buffer.dataCount
         /\ call'.op = "write" => buffer'.readIndex = buffer.readIndex
         /\ call'.op \in ReadOps \cup {"flush"} =>
              buffer'.writeIndex = buffer.writeIndex /\ buffer'.mem = buffer.mem
         /\ call'.op \in QueryOps => buffer' = buffer]_vars

\* a read has delivered two records and left a non-zero writeIndex and the
\* stored bytes in place
C16_Witness ==
    /\ call.op = "read" /\ call.ret = 2 /\ ~buffer.null
    /\ buffer.writeIndex = 2 /\ buffer.readIndex = 2
    /\ buffer.mem[0] = 1

\* C17: from the same buffer state and with the same destination and count,
\* read and readFromISR return the same value, deliver the same records and
\* leave the same descriptor, cursors and storage.
C17_ReadVariantsAgree ==
    \A length \in 0..MaxLen :
      \A dst \in DstPtrs(buffer, length) :
        RingBuffer_read(buffer, dst, length) = RingBuffer_readFromISR(buffer, dst, length)

\* readFromISR has delivered two records across the end of a three-slot
\* buffer while writeIndex was below readIndex
C17_Witness ==
    /\ call.op = "readFromISR" /\ call.ret = 2 /\ ~buffer.null
    /\ buffer.dataCount = 3 /\ buffer.readIndex = 1 /\ buffer.writeIndex = 1
    /\ call.data.bytes[0] = 1

\* the largest element of a non-empty set of numbers
Largest(I) == CHOOSE i \in I : \A j \in I : j <= i

\* C18: a successful write of count records that starts at writeIndex = w
\* returns count, stores sourceRecords[i] in slot (w + i) mod capacity in
\* ascending order of i (so a slot holds the last record stored in it),
\* leaves every other slot and field alone and ends with
\* writeIndex = (w + count) mod capacity.
C18_WriteEffect ==
    [][(call'.op = "write" /\ call'.ret >= 0) =>
         LET w   == buffer.writeIndex
             n   == call'.length
             cap == buffer.dataCount
             ds  == buffer.dataSize
         IN  /\ call'.ret = n
             /\ buffer'.writeIndex = (w + n) % cap
             /\ \A f \in DOMAIN buffer \ {"writeIndex", "mem"} : buffer'[f] = buffer[f]
             /\ DOMAIN buffer'.mem = DOMAIN buffer.mem
             /\ \A s \in 0..(cap - 1) :
                  LET I == {i \in 0..(n - 1) : (w + i) % cap = s}
                  IN  RecordAt(buffer'.mem, s, ds) =
                        IF I = {} THEN RecordAt(buffer.mem, s, ds)
                        ELSE RecordAt(call'.data.bytes, Largest(I), ds)]_vars

\* a write of two different records began at the last slot of a three-slot
\* buffer: the first record is in slot 2, the second in slot 0
C18_Witness ==
    /\ call.op = "write" /\ call.ret = 2 /\ ~buffer.null
    /\ buffer.dataCount = 3 /\ buffer.dataSize = 2 /\ buffer.writeIndex = 1
    /\ RecordAt(buffer.mem, 2, 2) = RecordAt(call.data.bytes, 0, 2)
    /\ RecordAt(buffer.mem, 0, 2) = RecordAt(call.data.bytes, 1, 2)
    /\ RecordAt(call.data.bytes, 0, 2) # RecordAt(call.data.bytes, 1, 2)

\* C14: create with capacity < 2 or recordSize = 0 returns no buffer and has
\* called the allocator for nothing: no block was handed out during the call.
C14_InvalidArgsAllocateNothing ==
    (/\ maker.pc \notin {"idle", "check"}
     /\ (maker.bufferSize < 2 \/ maker.dataSize = 0))
    => /\ maker.pc = "returned"
       /\ maker.result = "null"
       /\ maker.live = maker.live0
       /\ maker.mem = "unset"

\* create(1, 2) has returned after an earlier call had taken two blocks
C14_Witness ==
    /\ maker.pc = "returned" /\ maker.bufferSize = 1 /\ maker.dataSize = 2
    /\ maker.result = "null" /\ maker.live = 2

\* C15: when the allocator fails for the descriptor or for the storage,
\* create never dereferences the failed allocation, returns no buffer and
\* has released what it had allocated during the call.
C15_AllocFailureHandled ==
    /\ maker.pc # "idle" => ~maker.nullDeref
    /\ (maker.pc = "returned" /\ maker.failed) =>
          maker.result = "null" /\ maker.live = maker.live0

\* C11: write commit ordering: writeIndex changes only in the step that ends
\* the copy loop, after all length records have been stored, and the consumer
\* takes no step (so observes no cursor and no slot) while the producer is
\* inside its batch: it never sees a half-written batch.
C11_WriteCommitOrdering ==
    [][/\ buffer'.writeIndex # buffer.writeIndex =>
            /\ writer.pc = "loop" /\ writer'.pc = "exit"
            /\ writer.currItem = writer.length
       /\ reader' # reader => writer.pc \notin {"loop", "exit"}]_vars

\* the producer is half way through a batch of two records that began at the
\* last slot, while the consumer, its test passed, waits before its region
C11_Witness ==
    /\ writer.pc = "loop" /\ writer.length = 2 /\ writer.currItem = 1
    /\ buffer.dataCount = 3 /\ writer.currIndex = 0 /\ buffer.writeIndex = 2
    /\ reader.pc = "enter"

\* C12: read commit ordering: readIndex changes only in the step that ends
\* the consumer's copy loop, after all length records have been copied out,
\* and the producer takes no step (so stores into no slot) while the
\* consumer is inside its copy-out.
C12_ReadCommitOrdering ==
    [][/\ buffer'.readIndex # buffer.readIndex =>
            /\ reader.pc = "loop" /\ reader'.pc = "exit"
            /\ reader.currItem = reader.length
       /\ (writer' # writer \/ buffer'.mem # buffer.mem) =>
            reader.pc \notin {"loop", "exit"}]_vars

\* the interrupt handler is half way through copying out two records that
\* began at the last slot, having interrupted the producer before its region
C12_Witness ==
    /\ reader.pc = "loop" /\ reader.kind = "readFromISR"
    /\ reader.length = 2 /\ reader.currItem = 1
    /\ buffer.dataCount = 3 /\ reader.currIndex = 0 /\ buffer.readIndex = 2
    /\ writer.pc = "enter"

\* C19: check-then-act: from the producer's space test until its copy is
\* done the space count is at least the value the test has read, and from the
\* consumer's data test until its copy is done the data count is at least
\* the value that test has read.
C19_CheckThenAct ==
    /\ writer.pc \in {"enter", "loop"} =>
          ~ULess(RingBuffer_getSpaceCount(buffer), writer.seen)
    /\ reader.pc \in {"enter", "loop"} =>
          ~ULess(RingBuffer_getDataCount(buffer), reader.seen)

\* C20: critical-region discipline: a context is inside a region exactly
\* from its enter statement to its exit statement, so a call that has
\* returned (with an error or with its count) holds no region and an exit
\* statement always leaves a region the call has entered; at the exit
\* statement the call has made exactly length copy steps.
C20_CriticalDiscipline ==
    /\ [](/\ critical = "writer" <=> writer.pc \in {"loop", "exit"}
          /\ critical = "reader" <=> reader.pc \in {"loop", "exit"}
          /\ writer.pc = "loop" => writer.currItem \in 0..writer.length
          /\ reader.pc = "loop" => reader.currItem \in 0..reader.length
          /\ writer.pc = "exit" => writer.currItem = writer.length
          /\ reader.pc = "exit" => reader.currItem = reader.length)
    /\ [][/\ (writer' # writer /\ writer'.pc = "idle") =>
               \/ /\ writer.pc = "idle" /\ writer'.ret = -1
                  /\ critical' = critical /\ critical # "writer"
               \/ /\ writer.pc = "exit" /\ writer'.ret = writer.length
                  /\ critical = "writer" /\ critical' = "free"
          /\ (reader' # reader /\ reader'.pc = "idle") =>
               \/ /\ reader.pc = "idle" /\ reader'.ret = -1
                  /\ critical' = critical /\ critical # "reader"
               \/ /\ reader.pc = "exit" /\ reader'.ret = reader.length
                  /\ critical = "reader" /\ critical' = "free"
          /\ critical' # critical =>
               \/ /\ critical = "free" /\ critical' = "writer"
                  /\ writer.pc = "enter" /\ writer'.pc = "loop"
               \/ /\ critical = "free" /\ critical' = "reader"
                  /\ reader.pc = "enter" /\ reader'.pc = "loop"
               \/ /\ critical = "writer" /\ critical' = "free"
                  /\ writer.pc = "exit"
               \/ /\ critical = "reader" /\ critical' = "free"
                  /\ reader.pc = "exit"]_vars

\* the producer has stored both records of its batch and is about to leave
\* its region; the consumer's last call was refused
C20_Witness ==
    /\ critical = "writer" /\ writer.pc = "exit"
    /\ writer.length = 2 /\ writer.currItem = 2
    /\ reader.pc = "idle" /\ reader.ret = -1

=============================================================================
